---------------------------- MODULE Spec2Model ----------------------------
(***************************************************************************)
(* elfrc: a resource compiler for ELF files (src/elfrc.c).                 *)
(*                                                                         *)
(* The model follows main(): loadResources feeds the manifest to the       *)
(* incremental parser parseResourceFileData, patchHeaders lays the         *)
(* resources out, writeELFRelocatable serialises the object file.          *)
(*                                                                         *)
(* Bytes are one-character strings; a C array is the sequence of the bytes *)
(* written to it so far, the rest of a static array being its zero         *)
(* initialisation.  The manifest is text (no NUL byte in it).              *)
(***************************************************************************)
EXTENDS Integers, Sequences, FiniteSets, TLC

VARIABLES
    statics,        \* the function-static storage of parseResourceFileData
    resources,      \* the global resource list, in registration order
    rodataHeader,   \* the patched fields of the .rodata section header
    symtabHeader,   \* the patched fields of the .symtab section header
    strtabHeader,   \* the patched fields of the .strtab section header
    stderr,         \* the diagnostics printed so far
    layout,         \* which static object the linker placed after each buffer
    fs,             \* the files stat() finds, with their lengths
    manifest,       \* the bytes of the resource file
    pos,            \* how many of them have been read
    isPipe,         \* whether read() may return less than asked before the end
    pc,             \* where main() is
    exitStatus,     \* what main() returned (meaningful when pc = "done")
    lastRet,        \* what the last call of parseResourceFileData returned
    objFile,        \* the object file: <<>> while not created, else its segments
    objOpen,        \* whether the object file has been created
    hdrFile,        \* whether the C header file has been created
    fileIt,         \* writeFiles' loop position (index into resources)
    diskOk          \* whether writes to the object file still succeed

parseVars == <<statics, resources, stderr, lastRet>>
headerVars == <<rodataHeader, symtabHeader, strtabHeader>>
envVars == <<layout, fs, manifest, isPipe>>
outVars == <<objFile, objOpen, hdrFile, fileIt, diskOk>>
vars == <<statics, resources, rodataHeader, symtabHeader, strtabHeader, stderr,
          layout, fs, manifest, pos, isPipe, pc, exitStatus, lastRet,
          objFile, objOpen, hdrFile, fileIt, diskOk>>

(***************************************************************************)
(* Program constants.                                                      *)
(***************************************************************************)
TEXT == 0
BINARY == 1
SizeofCurType == 32
SizeofCurSymbol == 256
PATH_MAX == 4096
LoadBufferSize == 1024
PointerBits == 64
SECTIONHEADERCOUNT == 9
SizeofEhdr == 64
SizeofShdr == 64
SizeofSym == 24
SizeofCommentData == 70
SizeofShstrtabData == 61

TAB == "\t"
NL == "\n"
NUL == "NUL"
Indeterminate == "indeterminate"

ReadType == "ReadType"
ReadSymbol == "ReadSymbol"
ReadFilename == "ReadFilename"

text == <<"t", "e", "x", "t">>
binary == <<"b", "i", "n", "a", "r", "y">>

Rep(c, n) == [i \in 1..n |-> c]

(***************************************************************************)
(* C strings and arrays.                                                   *)
(***************************************************************************)
\* The string a char array holds: its bytes before the first NUL.
CStr(a) ==
    LET nuls == {i \in 1..Len(a) : a[i] = NUL}
        end == IF nuls = {} THEN Len(a) + 1
               ELSE CHOOSE i \in nuls : \A j \in nuls : i <= j
    IN  SubSeq(a, 1, end - 1)

\* a[idx] = c, for an index inside the array.
PutByte(a, idx, c) ==
    IF idx < Len(a) THEN [a EXCEPT ![idx + 1] = c]
    ELSE a \o Rep(NUL, idx - Len(a)) \o <<c>>

\* strncpy( curType, "binary", sizeof( curType ) ): the string, NUL-filled.
StrncpyBinary == binary \o Rep(NUL, SizeofCurType - Len(binary))

Sizeof(buf) ==
    CASE buf = "curType" -> SizeofCurType
      [] buf = "curSymbol" -> SizeofCurSymbol
      [] buf = "curFilename" -> PATH_MAX

(***************************************************************************)
(* The C standard leaves the placement of distinct static objects to the   *)
(* implementation.  A layout names, for each buffer, the object whose      *)
(* first byte follows the buffer's last: in declaration order, as gcc 12   *)
(* places them on x86-64 with the Makefile's CFLAGS (-O: curSymbol,        *)
(* curType, lineno, curFilename, curFilenameLen) and as it does at -O0     *)
(* (curFilename, lineno, curType, curSymbol, curTypeLen).                  *)
(***************************************************************************)
DeclOrder == [curType |-> "curTypeLen", curSymbol |-> "curSymbolLen",
              curFilename |-> "curFilenameLen"]
GccO == [curType |-> "lineno", curSymbol |-> "curType",
         curFilename |-> "curFilenameLen"]
GccO0 == [curType |-> "curSymbol", curSymbol |-> "curTypeLen",
          curFilename |-> "lineno"]
Layouts == {DeclOrder, GccO, GccO0}

\* A zero byte stored into the first byte of the object `target`: the low
\* byte of a little-endian unsigned int, or the first char of an array.
Clobber(st, target) ==
    CASE target \in {"curTypeLen", "curSymbolLen", "curFilenameLen", "lineno"} ->
            [st EXCEPT ![target] = @ - (@ % 256)]
      [] target \in {"curType", "curSymbol"} ->
            [st EXCEPT ![target] = PutByte(@, 0, NUL)]

\* buf[idx] = c.  An index equal to the array's size is past its end: the
\* byte lands in the object the layout placed there.
Store(st, buf, idx, c) ==
    IF idx < Sizeof(buf) THEN [st EXCEPT ![buf] = PutByte(@, idx, c)]
    ELSE Clobber(st, layout[buf])

(***************************************************************************)
(* registerResource.  malloc leaves ignore, payloadOffset and strtabOffset  *)
(* indeterminate.  The lengths of the model stay far below UINT_MAX, so    *)
(* the unsigned arithmetic never wraps.                                    *)
(***************************************************************************)
registerResource(res, type, symbol, fn, filesize) ==
    Append(res,
           [type |-> type,
            symbol |-> symbol,
            symbolSize |-> Len(symbol) + 1,
            filename |-> fn,
            size |-> IF type = TEXT THEN filesize + 1 ELSE filesize,
            ignore |-> Indeterminate,
            payloadOffset |-> Indeterminate,
            strtabOffset |-> Indeterminate])

(***************************************************************************)
(* parseResourceFileData.  A call works on m: the statics (st), the        *)
(* resource list (res), the diagnostics (err), the call's local `type`     *)
(* and its return value (ret, -1 once it has returned an error).           *)
(***************************************************************************)
InitStatics ==
    [state |-> ReadType,
     curType |-> <<>>, curTypeLen |-> 0,
     curSymbol |-> <<>>, curSymbolLen |-> 0,
     curFilename |-> <<>>, curFilenameLen |-> 0,
     lineno |-> 0]

\* The record's end (a line break or the end of input in ReadFilename):
\* terminate the file name, stat it, pick the type, register.
Finalize(m) ==
    LET st1 == Store(m.st, "curFilename", m.st.curFilenameLen, NUL)
        fn == CStr(st1.curFilename)
        kind == CStr(st1.curType)
        type == IF kind = text THEN TEXT
                ELSE IF kind = binary THEN BINARY
                ELSE m.type
    IN  IF fn \notin DOMAIN fs
        THEN [m EXCEPT !.st = st1,
                       !.err = Append(@, [msg |-> "failed to access",
                                          line |-> st1.lineno]),
                       !.ret = -1]
        ELSE [m EXCEPT !.st = st1,
                       !.type = type,
                       !.res = registerResource(@, type, CStr(st1.curSymbol),
                                                fn, fs[fn])]

\* parseResourceFileData( 0, 0 ): the end of the input.
ParseEOF(m0) ==
    LET m == [m0 EXCEPT !.type = 0, !.ret = 0]
    IN  CASE m.st.state = ReadType ->
                [m EXCEPT !.err = Append(@, [msg |-> "unexpected end, expected symbol name"]),
                          !.ret = -1]
          [] m.st.state = ReadSymbol ->
                [m EXCEPT !.err = Append(@, [msg |-> "unexpected end, expected file name"]),
                          !.ret = -1]
          [] m.st.state = ReadFilename -> Finalize(m)

\* One pass of the for loop, on the byte c.
ParseByte(m, c) ==
    LET st == m.st
    IN  CASE st.state = ReadType ->
            IF c = TAB THEN
                LET st1 == Store(st, "curType", st.curTypeLen, NUL)
                    known == CStr(st1.curType) \in {text, binary}
                    st2 == IF known THEN st1
                           ELSE [st1 EXCEPT !.curType = StrncpyBinary]
                IN  [m EXCEPT !.st = [st2 EXCEPT !.state = ReadSymbol,
                                                 !.curSymbolLen = 0],
                              !.err = IF known THEN @
                                      ELSE Append(@, [msg |-> "unknown resource type",
                                                      line |-> st1.lineno])]
            ELSE IF c = NL THEN
                [m EXCEPT !.err = Append(@, [msg |-> "expected tab and symbol name",
                                             line |-> st.lineno]),
                          !.ret = -1]
            ELSE IF st.curTypeLen < SizeofCurType THEN
                [m EXCEPT !.st = [Store(st, "curType", st.curTypeLen, c)
                                    EXCEPT !.curTypeLen = @ + 1]]
            ELSE
                [m EXCEPT !.st = Store(st, "curType", st.curTypeLen - 1, NUL),
                          !.err = Append(@, [msg |-> "resource type is too long",
                                             line |-> st.lineno]),
                          !.ret = -1]
          [] st.state = ReadSymbol ->
            IF c = TAB THEN
                [m EXCEPT !.st = [Store(st, "curSymbol", st.curSymbolLen, NUL)
                                    EXCEPT !.state = ReadFilename,
                                           !.curFilenameLen = 0]]
            ELSE IF c = NL THEN
                [m EXCEPT !.err = Append(@, [msg |-> "expected tab and filename",
                                             line |-> st.lineno]),
                          !.ret = -1]
            ELSE IF st.curSymbolLen < SizeofCurSymbol THEN
                [m EXCEPT !.st = [Store(st, "curSymbol", st.curSymbolLen, c)
                                    EXCEPT !.curSymbolLen = @ + 1]]
            ELSE
                [m EXCEPT !.st = Store(st, "curSymbol", st.curSymbolLen - 1, NUL),
                          !.err = Append(@, [msg |-> "symbol is too long",
                                             line |-> st.lineno]),
                          !.ret = -1]
          [] st.state = ReadFilename ->
            IF c = NL THEN
                LET m1 == Finalize(m)
                IN  IF m1.ret = -1 THEN m1
                    ELSE [m1 EXCEPT !.st = [m1.st EXCEPT !.state = ReadType,
                                                         !.curTypeLen = 0,
                                                         !.lineno = @ + 1]]
            ELSE IF st.curFilenameLen < PATH_MAX THEN
                [m EXCEPT !.st = [Store(st, "curFilename", st.curFilenameLen, c)
                                    EXCEPT !.curFilenameLen = @ + 1]]
            ELSE
                [m EXCEPT !.st = Store(st, "curFilename", st.curFilenameLen - 1, NUL),
                          !.err = Append(@, [msg |-> "file name is too long",
                                             line |-> st.lineno]),
                          !.ret = -1]

\* The for loop over buffer[lo..hi], left to right, leaving at the first
\* return; the range is halved only to keep the evaluation shallow.
RECURSIVE ParseLoop(_, _, _, _)
ParseLoop(m, buffer, lo, hi) ==
    IF m.ret = -1 \/ lo > hi THEN m
    ELSE IF lo = hi THEN ParseByte(m, buffer[lo])
    ELSE LET mid == (lo + hi) \div 2
         IN  ParseLoop(ParseLoop(m, buffer, lo, mid), buffer, mid + 1, hi)

\* parseResourceFileData( buffer, len ) with a buffer: `type` starts at 0.
ParseData(m, buffer) ==
    ParseLoop([m EXCEPT !.type = 0, !.ret = 0], buffer, 1, Len(buffer))

\* The state a call starts from and the state it leaves.
Machine == [st |-> statics, res |-> resources, err |-> stderr, type |-> 0, ret |-> 0]

Leaves(m) ==
    /\ statics' = m.st
    /\ resources' = m.res
    /\ stderr' = m.err
    /\ lastRet' = m.ret

(***************************************************************************)
(* The static tables and section headers, as initialised.                  *)
(***************************************************************************)
TOTALHEADERSIZE == SizeofEhdr + SizeofShdr * SECTIONHEADERCOUNT

\* The fixed symbols: undefined, file, and the sections .text, .data,
\* .bss, .rodata and .comment.
symtabData ==
    <<[st_type |-> "STT_NOTYPE", st_shndx |-> "STN_UNDEF"],
      [st_type |-> "STT_FILE", st_shndx |-> "SHN_ABS"],
      [st_type |-> "STT_SECTION", st_shndx |-> 1],
      [st_type |-> "STT_SECTION", st_shndx |-> 2],
      [st_type |-> "STT_SECTION", st_shndx |-> 3],
      [st_type |-> "STT_SECTION", st_shndx |-> 4],
      [st_type |-> "STT_SECTION", st_shndx |-> 5]>>

SizeofSymtabData == Len(symtabData) * SizeofSym

InitRodataHeader ==
    [sh_offset |-> TOTALHEADERSIZE + SizeofCommentData + SizeofShstrtabData,
     sh_size |-> 0,
     sh_addralign |-> 0]

InitSymtabHeader ==
    [sh_offset |-> TOTALHEADERSIZE + SizeofCommentData + SizeofShstrtabData,
     sh_size |-> 0]

InitStrtabHeader ==
    [sh_offset |-> TOTALHEADERSIZE + SizeofCommentData + SizeofShstrtabData,
     sh_size |-> 0]

(***************************************************************************)
(* padding and patchHeaders                                                *)
(***************************************************************************)
\* a & ~b on unsigned values, bit by bit.
RECURSIVE BitAndNot(_, _)
BitAndNot(a, b) ==
    IF a = 0 THEN 0
    ELSE (a % 2) * (1 - (b % 2)) + 2 * BitAndNot(a \div 2, b \div 2)

\* padding( size ), reading the alignment from the .rodata header.
padding(rodata, size) ==
    IF size = rodata.sh_addralign THEN 0
    ELSE BitAndNot(rodata.sh_addralign - 1, size) + 1

\* AlignLoop without the cap at the pointer width.
RECURSIVE AlignLoopUncapped(_, _)
AlignLoopUncapped(align, size) ==
    IF size > align THEN AlignLoopUncapped(align * 2, size)
    ELSE align

\* align = 1; while ( align < sizeof(void *) * 8 && size > align ) align <<= 1;
RECURSIVE AlignLoop(_, _)
AlignLoop(align, size) ==
    IF align < PointerBits /\ size > align THEN AlignLoop(align * 2, size)
    ELSE align

\* The first loop of patchHeaders, from resource i on.
RECURSIVE MaxAlign(_, _, _)
MaxAlign(res, i, maxalign) ==
    IF i > Len(res) THEN maxalign
    ELSE LET align == AlignLoop(1, res[i].size)
         IN  MaxAlign(res, i + 1, IF align > maxalign THEN align ELSE maxalign)

\* SizeStep padding after the last resource too.
SizeStepTrailingPad(acc, i, rodata) ==
    LET r == acc.res[i]
    IN  [res |-> [acc.res EXCEPT ![i].payloadOffset = acc.payloadSize,
                                 ![i].strtabOffset = acc.strtabSize],
         payloadSize |-> acc.payloadSize + r.size + padding(rodata, r.size),
         symtabSize |-> acc.symtabSize + SizeofSym,
         strtabSize |-> acc.strtabSize + r.symbolSize]

\* SizeStep counting no symbol entry for the resource.
SizeStepNoSymbol(acc, i, rodata) ==
    LET r == acc.res[i]
        next == i < Len(acc.res)
    IN  [res |-> [acc.res EXCEPT ![i].payloadOffset = acc.payloadSize,
                                 ![i].strtabOffset = acc.strtabSize],
         payloadSize |-> acc.payloadSize + r.size
                           + (IF next THEN padding(rodata, r.size) ELSE 0),
         symtabSize |-> acc.symtabSize,
         strtabSize |-> acc.strtabSize + r.symbolSize]

\* SizeStep counting the names without their terminating NUL.
SizeStepNoNul(acc, i, rodata) ==
    LET r == acc.res[i]
        next == i < Len(acc.res)
    IN  [res |-> [acc.res EXCEPT ![i].payloadOffset = acc.payloadSize,
                                 ![i].strtabOffset = acc.strtabSize],
         payloadSize |-> acc.payloadSize + r.size
                           + (IF next THEN padding(rodata, r.size) ELSE 0),
         symtabSize |-> acc.symtabSize + SizeofSym,
         strtabSize |-> acc.strtabSize + r.symbolSize - 1]

\* One pass of the second loop of patchHeaders, on resource i; acc holds
\* the resource list and the three running sizes.
SizeStep(acc, i, rodata) ==
    LET r == acc.res[i]
        next == i < Len(acc.res)
    IN  [res |-> [acc.res EXCEPT ![i].payloadOffset = acc.payloadSize,
                                 ![i].strtabOffset = acc.strtabSize],
         payloadSize |-> acc.payloadSize + r.size
                           + (IF next THEN padding(rodata, r.size) ELSE 0),
         symtabSize |-> acc.symtabSize + SizeofSym,
         strtabSize |-> acc.strtabSize + r.symbolSize]

\* The second loop of patchHeaders, from resource i on.
RECURSIVE SizeLoop(_, _, _)
SizeLoop(acc, i, rodata) ==
    IF i > Len(acc.res) THEN acc
    ELSE SizeLoop(SizeStep(acc, i, rodata), i + 1, rodata)

\* What patchHeaders leaves once the reference header has been read.
Patched(res, rodata, symtab, strtab) ==
    LET rodata1 == [rodata EXCEPT !.sh_addralign = MaxAlign(res, 1, 1)]
        acc == SizeLoop([res |-> res, payloadSize |-> 0,
                         symtabSize |-> SizeofSymtabData, strtabSize |-> 1],
                        1, rodata1)
    IN  [res |-> acc.res,
         rodata |-> [rodata1 EXCEPT !.sh_size = acc.payloadSize,
                                    !.sh_offset = @ + acc.symtabSize + acc.strtabSize],
         symtab |-> [symtab EXCEPT !.sh_size = acc.symtabSize],
         strtab |-> [strtab EXCEPT !.sh_offset = @ + acc.symtabSize,
                                   !.sh_size = acc.strtabSize]]

\* main() at patchHeaders: the reference ELF header (the program's own
\* binary) may be unreadable, which ends the run.
PatchHeaders ==
    /\ pc = "patchHeaders"
    /\ \E readable \in BOOLEAN :
          IF readable
          THEN LET p == Patched(resources, rodataHeader, symtabHeader, strtabHeader)
               IN  /\ resources' = p.res
                   /\ rodataHeader' = p.rodata
                   /\ symtabHeader' = p.symtab
                   /\ strtabHeader' = p.strtab
                   /\ stderr' = stderr
                   /\ pc' = "writeELFRelocatable"
                   /\ exitStatus' = exitStatus
          ELSE /\ stderr' = Append(stderr, [msg |-> "failed to open or read self"])
               /\ pc' = "done"
               /\ exitStatus' = -1
               /\ UNCHANGED <<resources, headerVars>>
    /\ UNCHANGED <<statics, lastRet, envVars, pos, outVars>>

(***************************************************************************)
(* The inputs: manifests made of lines, file systems, layouts.             *)
(***************************************************************************)
MaxChunk == 3
MaxFileSize == 1
MaxRes == 3

symA == <<"A">>
symBB == <<"B", "B">>
fileF == <<"f">>
fileG == <<"g">>
fileM == <<"m">>
fileLong == Rep("d", LoadBufferSize)
wat == <<"w", "a", "t">>

Line(k, s, f) == k \o <<TAB>> \o s \o <<TAB>> \o f \o <<NL>>

\* Well-formed records; fileM names a file that does not exist.
PlainLines ==
    {Line(k, symA, fileF) : k \in {text, binary, wat}}
      \cup {Line(text, symBB, fileG), Line(<<>>, symA, fileG),
            Line(binary, symA, fileM)}

\* Records whose fields fill their buffers or exceed them, and broken ones.
EdgeLines ==
    {Line(Rep("k", SizeofCurType), symA, fileF),
     Line(Rep("k", SizeofCurType + 1), symA, fileF),
     Line(binary, Rep("s", SizeofCurSymbol), fileF),
     Line(text, Rep("s", SizeofCurSymbol + 1), fileF),
     text \o <<NL>>,
     text \o <<TAB>> \o symA \o <<NL>>}

Lines == PlainLines \cup EdgeLines

FirstLines == {Line(binary, symA, fileF), Line(text, symBB, fileG)}

\* m without its last n bytes.
DropLast(m, n) == SubSeq(m, 1, Len(m) - n)

\* Up to two lines, whole or cut short (the last line break missing, or
\* the input ending inside the last record), and one manifest longer than
\* loadResources' buffer.
Manifests ==
    LET plain == PlainLines \cup {a \o b : a \in FirstLines, b \in PlainLines}
        edge == EdgeLines
                  \cup {Line(binary, symA, fileF)
                          \o Line(binary, Rep("s", SizeofCurSymbol), fileF)}
    IN  {<<>>, Line(binary, symA, fileLong) \o Line(text, symBB, fileG)}
          \cup plain \cup edge
          \cup {DropLast(m, n) : m \in plain, n \in {1, 3}}

\* The files that exist: fileF of any length, fileG empty, fileLong.
FileSystems ==
    {(fileF :> n) @@ (fileG :> 0) @@ (fileLong :> 1) : n \in 0..MaxFileSize}

InitEnv ==
    /\ layout \in Layouts
    /\ fs \in FileSystems
    /\ manifest \in Manifests
    /\ isPipe \in BOOLEAN
    /\ pos = 0

InitProgram ==
    /\ statics = InitStatics
    /\ rodataHeader = InitRodataHeader
    /\ symtabHeader = InitSymtabHeader
    /\ strtabHeader = InitStrtabHeader
    /\ stderr = <<>>
    /\ lastRet = 0
    /\ exitStatus = 0
    /\ objFile = <<>>
    /\ objOpen = FALSE
    /\ hdrFile = FALSE
    /\ fileIt = 0
    /\ diskOk = TRUE

(***************************************************************************)
(* A caller that feeds a manifest (one shorter than loadResources' buffer)  *)
(* to the parser in chunks of any sizes and then signals the end of the    *)
(* input, stopping at the first error.                                     *)
(***************************************************************************)
InitChunks ==
    /\ InitProgram
    /\ resources = <<>>
    /\ InitEnv
    /\ Len(manifest) < LoadBufferSize
    /\ isPipe = FALSE
    /\ pc = "feed"

ChunkSizes(left) == {n \in 1..MaxChunk : n <= left} \cup {left}

FeedChunk ==
    /\ pc = "feed"
    /\ pos < Len(manifest)
    /\ \E n \in ChunkSizes(Len(manifest) - pos) :
          LET m == ParseData(Machine, SubSeq(manifest, pos + 1, pos + n))
          IN  /\ Leaves(m)
              /\ pos' = pos + n
              /\ pc' = IF m.ret = -1 THEN "fed" ELSE "feed"
    /\ UNCHANGED <<headerVars, envVars, outVars, exitStatus>>

FeedEOF ==
    /\ pc = "feed"
    /\ pos = Len(manifest)
    /\ Leaves(ParseEOF(Machine))
    /\ pc' = "fed"
    /\ UNCHANGED <<headerVars, envVars, outVars, exitStatus, pos>>

NextChunks == FeedChunk \/ FeedEOF

SpecChunks == InitChunks /\ [][NextChunks]_vars

(***************************************************************************)
(* patchHeaders on its own, on every resource list of up to MaxRes         *)
(* resources that registerResource can have built.                         *)
(***************************************************************************)
LayoutFileSizes ==
    (0..MaxFileSize) \cup {PointerBits - 1, PointerBits, 2 * PointerBits}

Entries ==
    {[type |-> e[1], symbol |-> e[2], filename |-> fileF, filesize |-> n] :
        e \in {<<TEXT, symA>>, <<BINARY, symBB>>}, n \in LayoutFileSizes}

RECURSIVE Registered(_)
Registered(es) ==
    IF es = <<>> THEN <<>>
    ELSE LET e == es[Len(es)]
         IN  registerResource(Registered(SubSeq(es, 1, Len(es) - 1)),
                              e.type, e.symbol, e.filename, e.filesize)

RegisteredLists ==
    UNION {{Registered(es) : es \in [1..n -> Entries]} : n \in 0..MaxRes}

InitLayout ==
    /\ InitProgram
    /\ resources \in RegisteredLists
    /\ layout = DeclOrder
    /\ fs = [f \in {fileF} |-> 0]
    /\ manifest = <<>>
    /\ isPipe = FALSE
    /\ pos = 0
    /\ pc = "patchHeaders"

NextLayout == PatchHeaders

SpecLayout == InitLayout /\ [][NextLayout]_vars

(***************************************************************************)
(* main(), run with -o and -h: loadResources, patchHeaders,                *)
(* writeELFRelocatable, writeCHeader.  `return -1` ends the run with a     *)
(* nonzero status.                                                         *)
(***************************************************************************)
Init ==
    /\ InitProgram
    /\ resources = <<>>
    /\ InitEnv
    /\ pc = "loadResources"

\* A return of -1 from main.
Fails(msgs) ==
    /\ stderr' = stderr \o msgs
    /\ pc' = "done"
    /\ exitStatus' = -1

Min(a, b) == IF a < b THEN a ELSE b

\* What read( fd, buffer, sizeof( buffer ) ) may return with `left` bytes
\* to come: a file gives all it can, a pipe what has arrived so far.
ReadSizes(left) ==
    IF left = 0 THEN {0}
    ELSE IF isPipe
         THEN {n \in 1..MaxChunk : n <= left} \cup {Min(left, LoadBufferSize)}
         ELSE {Min(left, LoadBufferSize)}

\* loadResources: the resource file is opened, unless it is standard input.
LoadOpen ==
    /\ pc = "loadResources"
    /\ \E opened \in BOOLEAN :
          IF opened \/ isPipe
          THEN /\ pc' = "read"
               /\ UNCHANGED <<stderr, exitStatus>>
          ELSE Fails(<<[msg |-> "failed to open resource file"]>>)
    /\ UNCHANGED <<statics, resources, lastRet, headerVars, envVars, pos, outVars>>

\* loadResources: one pass of the do-while loop.
LoadRead ==
    /\ pc = "read"
    /\ \E nread \in ReadSizes(Len(manifest) - pos), readOk \in BOOLEAN :
          IF ~readOk
          THEN /\ Fails(<<[msg |-> "failed to read resource file"]>>)
               /\ UNCHANGED <<statics, resources, lastRet, pos>>
          ELSE LET m == ParseData(Machine, SubSeq(manifest, pos + 1, pos + nread))
               IN  /\ statics' = m.st
                   /\ resources' = m.res
                   /\ lastRet' = m.ret
                   /\ pos' = pos + nread
                   /\ IF m.ret = -1
                      THEN Fails(SubSeq(m.err, Len(stderr) + 1, Len(m.err)))
                      ELSE /\ stderr' = m.err
                           /\ pc' = IF nread = LoadBufferSize THEN "read" ELSE "eof"
                           /\ exitStatus' = exitStatus
    /\ UNCHANGED <<headerVars, envVars, outVars>>

\* loadResources after the loop: parseResourceFileData( 0, 0 ), whose
\* return value is dropped, and return close( fd ) (closing a descriptor
\* that was only read succeeds).
LoadEOF ==
    /\ pc = "eof"
    /\ Leaves(ParseEOF(Machine))
    /\ pc' = "patchHeaders"
    /\ UNCHANGED <<headerVars, envVars, pos, outVars, exitStatus>>

(***************************************************************************)
(* writeELFRelocatable.  The object file is the sequence of the blocks     *)
(* written to it.  A write error persists (a full disk): once a write has  *)
(* failed the later ones fail too.                                         *)
(***************************************************************************)
Block(sec, len) == [sec |-> sec, len |-> len]

\* The WRITEBLOCKs: the ELF header, nine section headers, the comment, the
\* section names, the fixed symbols.
FixedBlocks ==
    <<Block("hdr", SizeofEhdr)>>
      \o [i \in 1..SECTIONHEADERCOUNT |-> Block("shdr", SizeofShdr)]
      \o <<Block("commentData", SizeofCommentData),
           Block("shstrtabData", SizeofShstrtabData),
           Block("symtabData", SizeofSymtabData)>>

\* open( fn, O_WRONLY | O_CREAT | O_TRUNC ) and the WRITEBLOCKs, of which
\* the first `good` succeed.
WriteHeaders ==
    /\ pc = "writeELFRelocatable"
    /\ \E created \in BOOLEAN, good \in 0..Len(FixedBlocks) :
          IF ~created
          THEN /\ good = 0
               /\ Fails(<<[msg |-> "failed to open object file"]>>)
               /\ UNCHANGED <<objFile, objOpen, diskOk>>
          ELSE /\ objOpen' = TRUE
               /\ objFile' = SubSeq(FixedBlocks, 1, good)
               /\ IF good = Len(FixedBlocks)
                  THEN /\ pc' = "writeSymbols"
                       /\ UNCHANGED <<stderr, exitStatus, diskOk>>
                  ELSE /\ diskOk' = FALSE
                       /\ Fails(<<>>)
    /\ UNCHANGED <<statics, resources, lastRet, headerVars, envVars, pos,
                   hdrFile, fileIt>>

\* The ignore flags once read: what malloc left in a flag that was never
\* set is whatever `garbage` says.
ReadIgnore(res, garbage) ==
    [i \in 1..Len(res) |->
        IF res[i].ignore = Indeterminate
        THEN [res[i] EXCEPT !.ignore = garbage[i]]
        ELSE res[i]]

\* The symbol entries writeSymbols writes, in order.
SymbolEntries(res) ==
    LET all == [i \in 1..Len(res) |->
                  [sec |-> "sym", len |-> SizeofSym, res |-> i,
                   ignore |-> res[i].ignore,
                   st_name |-> res[i].strtabOffset,
                   st_value |-> res[i].payloadOffset,
                   st_size |-> res[i].size,
                   st_shndx |-> 4]]
    IN  SelectSeq(all, LAMBDA e : e.ignore # "TRUE")

\* The names writeStringTable writes after the leading NUL, in order.
NameEntries(res) ==
    LET all == [i \in 1..Len(res) |->
                  [sec |-> "name", len |-> res[i].symbolSize, res |-> i,
                   ignore |-> res[i].ignore]]
    IN  SelectSeq(all, LAMBDA e : e.ignore # "TRUE")

WriteSymbols ==
    /\ pc = "writeSymbols"
    /\ \E garbage \in [1..Len(resources) -> {"FALSE", "TRUE"}],
          good \in 0..Len(resources) :
          LET res == ReadIgnore(resources, garbage)
              syms == SymbolEntries(res)
          IN  /\ good <= Len(syms)
              /\ resources' = res
              /\ objFile' = objFile \o SubSeq(syms, 1, good)
              /\ IF good = Len(syms)
                 THEN /\ pc' = "writeStringTable"
                      /\ UNCHANGED <<stderr, exitStatus, diskOk>>
                 ELSE /\ diskOk' = FALSE
                      /\ Fails(<<[msg |-> "failed to write symbols"]>>)
    /\ UNCHANGED <<statics, lastRet, headerVars, envVars, pos, objOpen,
                   hdrFile, fileIt>>

WriteStringTable ==
    /\ pc = "writeStringTable"
    /\ \E good \in 0..(1 + Len(resources)) :
          LET names == <<Block("strtab NUL", 1)>> \o NameEntries(resources)
          IN  /\ good <= Len(names)
              /\ objFile' = objFile \o SubSeq(names, 1, good)
              /\ IF good = Len(names)
                 THEN /\ pc' = "writeFiles"
                      /\ fileIt' = 1
                      /\ UNCHANGED <<stderr, exitStatus, diskOk>>
                 ELSE /\ diskOk' = FALSE
                      /\ fileIt' = fileIt
                      /\ Fails(<<[msg |-> "failed to write string table"]>>)
    /\ UNCHANGED <<statics, resources, lastRet, headerVars, envVars, pos,
                   objOpen, hdrFile>>

\* Attempted writing the padding whether or not the file was copied.
AttemptedPadsAnyway(res, rodata, i, src) ==
    LET r == res[i]
        npad == IF i < Len(res) THEN padding(rodata, r.size) ELSE 0
    IN  (IF src # "ok" THEN <<>>
         ELSE <<[sec |-> "file", len |-> fs[r.filename], res |-> i]>>
                \o (IF r.type = TEXT
                    THEN <<[sec |-> "nul", len |-> 1, res |-> i]>>
                    ELSE <<>>))
          \o [k \in 1..npad |-> [sec |-> "pad", len |-> 1, res |-> i]]

\* The writes one pass of writeFiles' loop makes on resource i when each
\* succeeds: copyFileToFD opens and reads the file (src: "ok", or the call
\* that fails) and writes its bytes; a text resource's NUL and the padding
\* follow.  The file still has the length stat() found, and is shorter
\* than copyFileToFD's buffer.
Attempted(res, rodata, i, src) ==
    LET r == res[i]
        npad == IF i < Len(res) THEN padding(rodata, r.size) ELSE 0
    IN  IF src # "ok" THEN <<>>
        ELSE <<[sec |-> "file", len |-> fs[r.filename], res |-> i]>>
               \o (IF r.type = TEXT
                   THEN <<[sec |-> "nul", len |-> 1, res |-> i]>>
                   ELSE <<>>)
               \o [k \in 1..npad |-> [sec |-> "pad", len |-> 1, res |-> i]]

\* One pass of writeFiles' loop, on resource fileIt.  Of the writes the
\* first `good` succeed; only copyFileToFD looks at the result of its
\* write, and a write of no bytes cannot fail.
WriteFile ==
    /\ pc = "writeFiles"
    /\ fileIt <= Len(resources)
    /\ \E src \in {"ok", "open", "read"}, good \in 0..(2 + PointerBits) :
          LET writes == Attempted(resources, rodataHeader, fileIt, src)
              least == IF src = "ok" /\ writes[1].len = 0 THEN 1 ELSE 0
          IN  /\ good <= Len(writes)
              /\ good >= least
              /\ diskOk \/ good = least
              /\ resources' = [resources EXCEPT ![fileIt].ignore =
                                  IF src = "ok" /\ good >= 1 THEN "FALSE" ELSE "TRUE"]
              /\ objFile' = objFile \o SubSeq(writes, 1, good)
              /\ diskOk' = (diskOk /\ good = Len(writes))
              /\ stderr' = IF src = "ok" THEN stderr
                           ELSE Append(stderr, [msg |-> "failed to " \o src \o " file",
                                                res |-> fileIt])
    /\ fileIt' = fileIt + 1
    /\ UNCHANGED <<statics, lastRet, headerVars, envVars, pos, pc, exitStatus,
                   objOpen, hdrFile>>

\* writeFiles has returned 0; close( fd ).
WriteClose ==
    /\ pc = "writeFiles"
    /\ fileIt > Len(resources)
    /\ \E closed \in BOOLEAN :
          IF closed
          THEN /\ pc' = "writeCHeader"
               /\ UNCHANGED <<stderr, exitStatus>>
          ELSE Fails(<<[msg |-> "failed to close object file"]>>)
    /\ UNCHANGED <<statics, resources, lastRet, headerVars, envVars, pos, outVars>>

\* writeCHeader, then freeResourceList and return 0.
WriteCHeader ==
    /\ pc = "writeCHeader"
    /\ \E written \in BOOLEAN :
          IF written
          THEN /\ hdrFile' = TRUE
               /\ pc' = "done"
               /\ UNCHANGED <<stderr, exitStatus>>
          ELSE /\ hdrFile' = hdrFile
               /\ Fails(<<[msg |-> "failed to open header file"]>>)
    /\ UNCHANGED <<statics, resources, lastRet, headerVars, envVars, pos,
                   objFile, objOpen, fileIt, diskOk>>

Next ==
    \/ LoadOpen
    \/ LoadRead
    \/ LoadEOF
    \/ PatchHeaders
    \/ WriteHeaders
    \/ WriteSymbols
    \/ WriteStringTable
    \/ WriteFile
    \/ WriteClose
    \/ WriteCHeader

Spec == Init /\ [][Next]_vars

(***************************************************************************)
(* Properties.                                                             *)
(***************************************************************************)
\* patchHeaders has returned 0 and the run has not ended.
LaidOut ==
    pc \in {"writeELFRelocatable", "writeSymbols", "writeStringTable",
            "writeFiles", "writeCHeader"}

\* The sum of s[lo..hi].
RECURSIVE Sum(_, _, _)
Sum(s, lo, hi) ==
    IF lo > hi THEN 0
    ELSE IF lo = hi THEN s[lo]
    ELSE LET mid == (lo + hi) \div 2
         IN  Sum(s, lo, mid) + Sum(s, mid + 1, hi)

\* The padding laid out after resource i (not the last).
PadAfter(i) ==
    resources[i + 1].payloadOffset - resources[i].payloadOffset - resources[i].size

\* The manifest fed as one chunk, then the end of the input.
OneChunk ==
    LET m0 == [st |-> InitStatics, res |-> <<>>, err |-> <<>>, type |-> 0, ret |-> 0]
        m1 == IF manifest = <<>> THEN m0 ELSE ParseData(m0, manifest)
    IN  IF m1.ret = -1 THEN m1 ELSE ParseEOF(m1)

Registry(res) ==
    [i \in 1..Len(res) |-> [type |-> res[i].type, symbol |-> res[i].symbol,
                            filename |-> res[i].filename, size |-> res[i].size]]

\* C1: however the manifest is cut into chunks, the parse ends with the
\* registry and the result that the manifest fed as one chunk gives.
C1_ChunkingIrrelevant ==
    pc = "fed" => /\ Registry(resources) = Registry(OneChunk.res)
                  /\ lastRet = OneChunk.ret

\* C2: once a call of the parser has returned an error, layout has not run
\* and does not run, no output file is created, and the run ends with a
\* nonzero status.
C2_ParseErrorAborts ==
    lastRet = -1 => /\ pc \in {"read", "eof", "done"}
                    /\ pc = "done" => exitStatus # 0
                    /\ rodataHeader = InitRodataHeader
                    /\ ~objOpen
                    /\ ~hdrFile

\* C3: the padding laid out after a resource that is not the last is the
\* least p >= 0 that makes payloadOffset + size + p a multiple of the
\* section alignment, hence less than the alignment.
C3_PaddingIsLeast ==
    LaidOut =>
        \A i \in 1..(Len(resources) - 1) :
            LET align == rodataHeader.sh_addralign
                end == resources[i].payloadOffset + resources[i].size
            IN  /\ PadAfter(i) \in 0..(align - 1)
                /\ PadAfter(i) = (align - (end % align)) % align

\* C4: after patchHeaders the first payloadOffset is 0, each payloadOffset
\* is the sum of the sizes and paddings of the resources before it, and
\* the declared .rodata size is the last payloadOffset plus the last size
\* (0 for an empty registry).
C4_PayloadOffsets ==
    LaidOut =>
        LET n == Len(resources)
            gross == [j \in 1..n |-> resources[j].size
                                       + padding(rodataHeader, resources[j].size)]
        IN  /\ \A i \in 1..n : resources[i].payloadOffset = Sum(gross, 1, i - 1)
            /\ n > 0 => resources[1].payloadOffset = 0
            /\ rodataHeader.sh_size =
                  IF n = 0 THEN 0
                  ELSE resources[n].payloadOffset + resources[n].size

\* Three resources laid out, with padding between them.
C4_Witness ==
    /\ pc = "writeELFRelocatable"
    /\ Len(resources) = 3
    /\ resources[2].payloadOffset > resources[1].size
    /\ resources[3].payloadOffset > resources[2].payloadOffset + resources[2].size

\* The bytes of the payload section in the object file.
PayloadWritten ==
    LET lens == [j \in 1..Len(objFile) |->
                    IF objFile[j].sec \in {"file", "nul", "pad"}
                    THEN objFile[j].len ELSE 0]
    IN  Sum(lens, 1, Len(lens))

\* C5: when writeELFRelocatable has returned success for a non-empty
\* registry, the payload bytes writeFiles wrote number the declared
\* .rodata size.
C5_PayloadMatchesDeclared ==
    (pc = "writeCHeader" /\ Len(resources) > 0)
        => PayloadWritten = rodataHeader.sh_size

\* The resources whose file writeFiles failed to open.
OpenFailed ==
    {i \in 1..Len(resources) :
        \E k \in 1..Len(stderr) :
            /\ stderr[k].msg = "failed to open file"
            /\ stderr[k].res = i}

\* The segments writeFiles wrote for resource i, of the kinds in secs.
Written(i, secs) ==
    {j \in 1..Len(objFile) : objFile[j].sec \in secs /\ objFile[j].res = i}

SymtabHolds(fixed) ==
    LaidOut =>
        /\ symtabHeader.sh_size = (fixed + Len(resources)) * SizeofSym
        /\ \A j \in 1..Len(objFile) :
              objFile[j].sec = "symtabData" => objFile[j].len = fixed * SizeofSym

\* C7 as stated: six fixed symbols.
C7_SixFixedSymbols == SymtabHolds(6)

\* C7, amended: seven fixed symbols.  The declared size of .symtab is
\* (7 + N) entries for N registered resources, and the fixed entries
\* written before the resource symbols number 7.
C7_SevenFixedSymbols == SymtabHolds(7)

\* The fixed symbols and a resource's symbol have been written.
C7_Witness ==
    /\ pc = "writeStringTable"
    /\ Len(resources) = 2
    /\ \E j \in 1..Len(objFile) : objFile[j].sec = "symtabData"
    /\ \E j \in 1..Len(objFile) : objFile[j].sec = "sym"

\* C8: after layout the first strtabOffset is 1, each strtabOffset is 1
\* plus the name sizes (name length and its NUL) of the resources before
\* it, the offsets increase strictly, and the declared .strtab size is 1
\* plus all name sizes.
C8_StrtabOffsets ==
    LaidOut =>
        LET n == Len(resources)
            names == [j \in 1..n |-> Len(resources[j].symbol) + 1]
        IN  /\ \A i \in 1..n : resources[i].strtabOffset = 1 + Sum(names, 1, i - 1)
            /\ n > 0 => resources[1].strtabOffset = 1
            /\ \A i \in 1..(n - 1) :
                  resources[i].strtabOffset < resources[i + 1].strtabOffset
            /\ strtabHeader.sh_size = 1 + Sum(names, 1, n)

\* Three resources with names of different lengths laid out.
C8_Witness ==
    /\ pc = "writeELFRelocatable"
    /\ Len(resources) = 3
    /\ resources[1].symbol = symBB
    /\ resources[2].symbol = symA
    /\ resources[3].strtabOffset = 6

\* The powers of two the sizes of the model call for.
PowersOfTwo == {2^k : k \in 0..10}

\* The smallest power of two >= size.
CeilPow2(size) ==
    CHOOSE p \in PowersOfTwo :
        /\ p >= size
        /\ \A q \in PowersOfTwo : q >= size => p <= q

Max(S) == CHOOSE x \in S : \A y \in S : y <= x

\* C9: after layout the .rodata alignment is the largest, over the
\* resources, of the smaller of the pointer width in bits and the
\* smallest power of two >= size; 1 for an empty registry; always a power
\* of two in 1..pointer width.
C9_SectionAlignment ==
    LaidOut =>
        LET n == Len(resources)
            want == {Min(PointerBits, CeilPow2(resources[i].size)) : i \in 1..n}
        IN  /\ rodataHeader.sh_addralign = IF n = 0 THEN 1 ELSE Max(want)
            /\ rodataHeader.sh_addralign \in PowersOfTwo
            /\ rodataHeader.sh_addralign \in 1..PointerBits

\* A resource larger than the pointer width, next to a smaller one.
C9_Witness ==
    /\ pc = "writeELFRelocatable"
    /\ Len(resources) >= 2
    /\ resources[1].size = 1
    /\ resources[2].size > PointerBits
    /\ rodataHeader.sh_addralign = PointerBits

\* The manifest's lines: line k is what precedes the k-th line break.
LineBreaks == {i \in 1..Len(manifest) : manifest[i] = NL}

LineAt(k) ==
    LET end == CHOOSE e \in LineBreaks :
                  Cardinality({j \in LineBreaks : j <= e}) = k
        before == {j \in LineBreaks : j < end}
        start == IF before = {} THEN 1 ELSE Max(before) + 1
    IN  SubSeq(manifest, start, end - 1)

\* The kind token and the file name of a line: what precedes its first
\* tab, and what follows its second.
KindOf(line) ==
    LET tabs == {i \in 1..Len(line) : line[i] = TAB}
    IN  SubSeq(line, 1, (CHOOSE t \in tabs : \A u \in tabs : t <= u) - 1)

FileOf(line) ==
    LET tabs == {i \in 1..Len(line) : line[i] = TAB}
        t1 == CHOOSE t \in tabs : \A u \in tabs : t <= u
        t2 == CHOOSE t \in tabs \ {t1} : \A u \in tabs \ {t1} : t <= u
    IN  SubSeq(line, t2 + 1, Len(line))

\* C10: when every line of the manifest has been registered, the
\* resource of a line is Text of size f + 1 if the line's kind token is
\* "text" and Binary of size f otherwise, f being the length of the
\* line's file; a token that is neither "text" nor "binary" draws a warning.
C10_KindAndSize ==
    (pc = "fed" /\ Len(resources) = Cardinality(LineBreaks)) =>
        \A k \in 1..Len(resources) :
            LET kind == KindOf(LineAt(k))
                f == fs[FileOf(LineAt(k))]
            IN  /\ resources[k].type = IF kind = text THEN TEXT ELSE BINARY
                /\ resources[k].size = IF kind = text THEN f + 1 ELSE f
                /\ kind \notin {text, binary} =>
                      \E e \in 1..Len(stderr) : stderr[e].msg = "unknown resource type"

\* C11: once a write to the object file has failed, writeELFRelocatable
\* does not return success and the run ends with a nonzero status.
C11_WriteFailureAborts ==
    ~diskOk => /\ pc # "writeCHeader"
               /\ pc = "done" => exitStatus # 0

\* C12: a parse error that carries a line number and ends the parse
\* reports the 1-based number of the line being parsed: one more than the
\* records finalized so far.
C12_LineNumbersOneBased ==
    (pc = "fed" /\ lastRet = -1 /\ stderr # <<>>) =>
        LET last == stderr[Len(stderr)]
        IN  "line" \in DOMAIN last => last.line = Len(resources) + 1

\* The lengths of the object file's segments, those of the kinds in secs
\* only.
LensOf(secs) ==
    [j \in 1..Len(objFile) |-> IF objFile[j].sec \in secs THEN objFile[j].len ELSE 0]

\* Where in the payload stream segment j starts.
PayloadPosition(j) == Sum(LensOf({"file", "nul", "pad"}), 1, j - 1)

\* C13: after a successful emission, every resource whose file was copied
\* has its symbol in the object file, with st_name = strtabOffset,
\* st_value = payloadOffset, st_size = size and st_shndx = 4, and its
\* file's bytes start at payloadOffset in the payload stream, followed by
\* a NUL if it is Text, size bytes in all.
C13_SymbolsAndPayloadAgree ==
    pc = "writeCHeader" =>
        \A i \in 1..Len(resources) :
            resources[i].ignore = "FALSE" =>
                /\ \E j \in 1..Len(objFile) :
                      /\ objFile[j].sec = "sym"
                      /\ objFile[j].res = i
                      /\ objFile[j].st_name = resources[i].strtabOffset
                      /\ objFile[j].st_value = resources[i].payloadOffset
                      /\ objFile[j].st_size = resources[i].size
                      /\ objFile[j].st_shndx = 4
                /\ \E j \in Written(i, {"file"}) :
                      /\ PayloadPosition(j) = resources[i].payloadOffset
                      /\ objFile[j].len + Cardinality(Written(i, {"nul"}))
                            = resources[i].size
                      /\ (resources[i].type = TEXT) = (Written(i, {"nul"}) # {})

\* C14: no resource is marked excluded unless its file failed to be
\* copied, and once writeSymbols and writeStringTable have run the object
\* file holds one symbol entry and one name for each registered resource,
\* in registration order.
C14_EveryResourceHasItsSymbol ==
    /\ \A i \in 1..Len(resources) :
          resources[i].ignore = "TRUE" => (pc = "writeFiles" /\ fileIt > i) \/ pc \in {"writeCHeader", "done"}
    /\ pc = "writeStringTable" =>
          SelectSeq(objFile, LAMBDA e : e.sec = "sym")
             = SymbolEntries([i \in 1..Len(resources) |->
                                 [resources[i] EXCEPT !.ignore = "FALSE"]])
    /\ pc = "writeFiles" =>
          SelectSeq(objFile, LAMBDA e : e.sec = "name")
             = NameEntries([i \in 1..Len(resources) |->
                               [resources[i] EXCEPT !.ignore = "FALSE"]])

\* Where in the object file the first segment of kind sec starts.
StartOf(sec) ==
    LET first == CHOOSE j \in 1..Len(objFile) :
                    /\ objFile[j].sec = sec
                    /\ \A k \in 1..(j - 1) : objFile[k].sec # sec
    IN  Sum(LensOf({objFile[k].sec : k \in 1..Len(objFile)}), 1, first - 1)

\* C15: after a successful emission the comment, the section names, the
\* symbol table and the string table start at the offsets their headers
\* declare, and the bytes written before the payload number the declared
\* offset of .rodata: headers, comment, section names, and the declared
\* sizes of .symtab and .strtab.
C15_SectionsAtDeclaredOffsets ==
    pc = "writeCHeader" =>
        /\ StartOf("commentData") = TOTALHEADERSIZE
        /\ StartOf("shstrtabData") = TOTALHEADERSIZE + SizeofCommentData
        /\ StartOf("symtabData") = symtabHeader.sh_offset
        /\ StartOf("strtab NUL") = strtabHeader.sh_offset
        /\ Sum(LensOf({"hdr", "shdr", "commentData", "shstrtabData", "symtabData",
                       "sym", "strtab NUL", "name"}), 1, Len(objFile))
              = rodataHeader.sh_offset
        /\ rodataHeader.sh_offset =
              TOTALHEADERSIZE + SizeofCommentData + SizeofShstrtabData
                + symtabHeader.sh_size + strtabHeader.sh_size

\* C16: the terminating NUL of a field is written at the field's length,
\* which is less than the capacity of its buffer: of the kind once the
\* parser has left ReadType, of the symbol once it is in ReadFilename; and
\* no buffer holds more bytes than its capacity.
C16_WritesInBounds ==
    /\ statics.state \in {ReadSymbol, ReadFilename} =>
          statics.curTypeLen < SizeofCurType
    /\ statics.state = ReadFilename => statics.curSymbolLen < SizeofCurSymbol
    /\ Len(statics.curType) <= SizeofCurType
    /\ Len(statics.curSymbol) <= SizeofCurSymbol
    /\ Len(statics.curFilename) <= PATH_MAX

\* C17: when loadResources signals the end of the input, every byte of
\* the manifest has been passed to the parser.
C17_AllBytesBeforeEOF ==
    pc = "patchHeaders" => pos = Len(manifest)

=============================================================================
